---- MODULE Spec2Model ----
(***************************************************************************)
(* State-machine model of src/flappy.py: the main loop of the Flappy Bird  *)
(* game (one Frame action per loop iteration, lines 440-517) and its event *)
(* handlers (lines 519-542, one action per event type).                    *)
(*                                                                         *)
(* Lengths are in pixels, velocities in tenths of a pixel per frame, times *)
(* in milliseconds.                                                        *)
(***************************************************************************)
EXTENDS Integers, Sequences, FiniteSets

(* ----------------------------- constants ------------------------------ *)
fps == 60
screen_width == 500
screen_height == 700
scroll_speed == 3
pipe_gap == 160
pipe_frequency == 1800
ground_height == 168
ground_level == screen_height - ground_height
gravity == 3
max_vel == 50
jump_vel == 0 - 70
fade_threshold == 20
pipe_height_range == 75
reset_x == 100
\* sizes of the images img/bird1.png and img/pipe.png (the sprites' rects)
bird_width == 51
bird_height == 36
pipe_width == 78
pipe_length == 560
\* Clock.tick(fps) delays every loop iteration to int(1000 / fps) ms
FrameMs == 1000 \div fps

(* ------------------------------ bounds -------------------------------- *)
\* frames of flight followed: under Spec (all four input devices, the
\* flight down to the ground) and under SpecRun (the flight past the pipes)
MaxFlown == 50
MaxRun == 200
\* frames of flight followed after a restart
MaxAgain == 2
\* the game-over screen is followed for MaxFade frames
MaxFade == 21
\* frames of an attended flight followed under SpecAlone
MaxLeave == 30
\* number of qualifying restarts followed
MaxRestarts == 1
\* input devices held down at the same time
MaxHeld == 1
\* number of times the game is paused
MaxPauses == 1
\* in flight the player presses a jump input only while the bird's y is in
\* JumpLine .. JumpLine + JumpSlack
JumpLine == 380
JumpSlack == 4
\* a flight is paused only in its first PauseBy frames, and resumed either
\* within ResumeBy ms after the last spawn or once the next pair is due
PauseBy == 1
ResumeBy == 16
\* values drawn for random.randint(-75, 75) and for the stored best score
PipeHeights == {0, pipe_height_range}
StoredScores == {0}
\* stored best scores below, at and above the score a run reaches
MaxStored == 2
BestScores == 0..MaxStored

Devices == {"MOUSE", "SPACE", "UP", "RETURN"}
JumpDevices == {"MOUSE", "SPACE", "UP"}
RestartDevices == {"MOUSE", "SPACE", "RETURN"}

VARIABLES
  flying, game_over, game_started, game_paused,  \* lines 70-75
  score, pass_pipe, fade_counter,                \* lines 83-85
  high_score,                                    \* line 106
  stored,          \* the value in high_score.json
  pipe_age,        \* pygame.time.get_ticks() - last_pipe at the last frame,
                   \* saturated just above pipe_frequency
  flappy,          \* the Bird: rect.x, rect.y, vel, clicked; flaps counts
                   \* the impulses since update last saw the jump inputs up
  pipe_group,      \* the Pipe sprites in insertion order
  held,            \* devices down at the last event pump (get_pressed)
  mouse_pos,       \* where the pointer was at the last MOUSEBUTTONDOWN
  flown,           \* frames flown in this run
  restarts,        \* qualifying restarts so far
  pauses,          \* pauses so far
  obs,             \* what the last frame did (observation only)
  pressed,         \* a device has gone down since the last restart
  unattended       \* the player has left the controls for good

vars == <<flying, game_over, game_started, game_paused, score, pass_pipe,
          fade_counter, high_score, stored, pipe_age, flappy, pipe_group,
          held, mouse_pos, flown, restarts, pauses, obs, pressed,
          unattended>>

(* --------------------------- rect helpers ----------------------------- *)
Min(a, b) == IF a < b THEN a ELSE b

BirdLeft(b) == b.x
BirdRight(b) == b.x + bird_width
BirdTop(b) == b.y
BirdBottom(b) == b.y + bird_height

PipeLeft(p) == p.x
PipeRight(p) == p.x + pipe_width
PipeTop(p) == p.y
PipeBottom(p) == p.y + pipe_length

\* Bird.__init__: rect.center = [x, y] puts the top-left corner at
\* (x - w // 2, y - h // 2)
Bird(x, y) ==
  [x |-> x - bird_width \div 2, y |-> y - bird_height \div 2,
   vel |-> 0, clicked |-> FALSE, flaps |-> 0]

\* Pipe.__init__: position -1 hangs the rect by its topleft below the gap,
\* position 1 by its bottomleft above it
Pipe(x, y, position, n) ==
  [x |-> x,
   y |-> IF position = 1 THEN y - pipe_gap \div 2 - pipe_length
                         ELSE y + pipe_gap \div 2,
   position |-> position, centre |-> y, n |-> n, credits |-> 0]

\* int(self.vel) on the double the additions of 0.3 produce: truncation
\* toward zero, where the sums that are decimal integers (2.0, 3.0, 5.0)
\* are doubles just below them (1.9999999999999976, 2.9999999999999996,
\* 4.9999999999999964) and truncate one lower; -4.0 and -1.0 are reached
\* as -4.000000000000002 and -1.0000000000000027
IntVel(v, clamped) ==
  IF clamped THEN v \div 10
  ELSE IF v >= 0
       THEN (IF v > 0 /\ v % 10 = 0 THEN v \div 10 - 1 ELSE v \div 10)
       ELSE 0 - ((0 - v) \div 10)

\* pygame.Rect.colliderect
CollideRect(b, p) ==
  /\ BirdLeft(b) < PipeRight(p)
  /\ BirdRight(b) > PipeLeft(p)
  /\ BirdTop(b) < PipeBottom(p)
  /\ BirdBottom(b) > PipeTop(p)

\* pygame.sprite.groupcollide(bird_group, pipe_group, False, False)
GroupCollide(b, pipes) ==
  \E i \in 1..Len(pipes) : CollideRect(b, pipes[i])

(* ------------------------------ Bird.update --------------------------- *)
\* Gravity without the clamp of lines 340-341
GravityNoClamp(b) ==
  LET v2 == b.vel + gravity
  IN  [b EXCEPT !.vel = v2,
                !.y = IF BirdBottom(b) < ground_level
                        THEN b.y + IntVel(v2, FALSE) ELSE b.y]

\* lines 336-343
Gravity(b) ==
  LET v1 == b.vel + gravity
      clamped == v1 > max_vel
      v2 == IF clamped THEN max_vel ELSE v1
  IN  [b EXCEPT !.vel = v2,
                !.y = IF BirdBottom(b) < ground_level
                        THEN b.y + IntVel(v2, clamped) ELSE b.y]

\* Jump without the latch of line 350
JumpNoLatch(b, jumpHeld) ==
  LET b1 == IF jumpHeld /\ ~b.clicked
              THEN [b EXCEPT !.vel = jump_vel, !.flaps = b.flaps + 1]
              ELSE b
  IN  IF ~jumpHeld THEN [b1 EXCEPT !.clicked = FALSE, !.flaps = 0] ELSE b1

\* lines 345-354
Jump(b, jumpHeld) ==
  LET b1 == IF jumpHeld /\ ~b.clicked
              THEN [b EXCEPT !.clicked = TRUE, !.vel = jump_vel,
                             !.flaps = b.flaps + 1]
              ELSE b
  IN  IF ~jumpHeld THEN [b1 EXCEPT !.clicked = FALSE, !.flaps = 0] ELSE b1

BirdUpdate(b, fly, over, jumpHeld) ==
  LET b1 == IF fly THEN Gravity(b) ELSE b
  IN  IF ~over THEN Jump(b1, jumpHeld) ELSE b1

(* ------------------------------ main loop ----------------------------- *)
\* ScoreCheck without the clearing of the pass flag of line 469
ScoreCheckNoClear(b, pipes, pp, sc, hs) ==
  IF Len(pipes) = 0
  THEN [pass_pipe |-> pp, score |-> sc, high_score |-> hs, pipes |-> pipes]
  ELSE
    LET front == pipes[1]
        pp1 == IF /\ BirdLeft(b) > PipeLeft(front)
                  /\ BirdRight(b) < PipeRight(front)
                  /\ pp = FALSE
               THEN TRUE ELSE pp
        credit == pp1 /\ BirdLeft(b) > PipeRight(front)
        sc1 == IF credit THEN sc + 1 ELSE sc
    IN  [pass_pipe |-> pp1,
         score |-> sc1,
         high_score |-> IF credit /\ sc1 > hs THEN sc1 ELSE hs,
         pipes |-> IF credit
                     THEN [pipes EXCEPT ![1].credits = front.credits + 1]
                     ELSE pipes]

\* ScoreCheck without the update of the best score of lines 470-471
ScoreCheckNoBest(b, pipes, pp, sc, hs) ==
  IF Len(pipes) = 0
  THEN [pass_pipe |-> pp, score |-> sc, high_score |-> hs, pipes |-> pipes]
  ELSE
    LET front == pipes[1]
        pp1 == IF /\ BirdLeft(b) > PipeLeft(front)
                  /\ BirdRight(b) < PipeRight(front)
                  /\ pp = FALSE
               THEN TRUE ELSE pp
        credit == pp1 /\ BirdLeft(b) > PipeRight(front)
        sc1 == IF credit THEN sc + 1 ELSE sc
    IN  [pass_pipe |-> IF credit THEN FALSE ELSE pp1,
         score |-> sc1,
         high_score |-> hs,
         pipes |-> IF credit
                     THEN [pipes EXCEPT ![1].credits = front.credits + 1]
                     ELSE pipes]

\* lines 460-471: the pass flag and the score, read off the first sprite of
\* pipe_group; credits counts the points given while a pipe was that sprite
ScoreCheck(b, pipes, pp, sc, hs) ==
  IF Len(pipes) = 0
  THEN [pass_pipe |-> pp, score |-> sc, high_score |-> hs, pipes |-> pipes]
  ELSE
    LET front == pipes[1]
        pp1 == IF /\ BirdLeft(b) > PipeLeft(front)
                  /\ BirdRight(b) < PipeRight(front)
                  /\ pp = FALSE
               THEN TRUE ELSE pp
        credit == pp1 /\ BirdLeft(b) > PipeRight(front)
        sc1 == IF credit THEN sc + 1 ELSE sc
    IN  [pass_pipe |-> IF credit THEN FALSE ELSE pp1,
         score |-> sc1,
         high_score |-> IF credit /\ sc1 > hs THEN sc1 ELSE hs,
         pipes |-> IF credit
                     THEN [pipes EXCEPT ![1].credits = front.credits + 1]
                     ELSE pipes]

\* lines 476-482: a pair is due once the last one is older than
\* pipe_frequency; it is added bottom pipe first
SpawnDue(age) == age > pipe_frequency

\* Spawn with the top pipe left out
SpawnBottomOnly(pipes, pipe_height, n) ==
  pipes \o <<Pipe(screen_width, screen_height \div 2 + pipe_height, 0 - 1, n)>>

Spawn(pipes, pipe_height, n) ==
  pipes \o <<Pipe(screen_width, screen_height \div 2 + pipe_height, 0 - 1, n),
             Pipe(screen_width, screen_height \div 2 + pipe_height, 1, n)>>

\* Pipe.update, lines 392-395
OnScreen(p) == ~(PipeRight(p) < 0)

PipeUpdate(pipes) ==
  SelectSeq([i \in 1..Len(pipes) |->
               [pipes[i] EXCEPT !.x = pipes[i].x - scroll_speed]], OnScreen)

\* Collision with the ground test of line 499 strict
CollisionStrict(b, pipes) ==
  \/ GroupCollide(b, pipes)
  \/ BirdTop(b) < 0
  \/ BirdBottom(b) > ground_level

\* lines 493 and 499
Collision(b, pipes) ==
  \/ GroupCollide(b, pipes)
  \/ BirdTop(b) < 0
  \/ BirdBottom(b) >= ground_level

\* RestartDue one frame early
RestartDueEarly(fade, h) == fade >= fade_threshold /\ h \cap RestartDevices # {}

\* line 509
RestartDue(fade, h) == fade > fade_threshold /\ h \cap RestartDevices # {}

\* reset_game, lines 299-304
ResetBird(b) == [b EXCEPT !.x = reset_x, !.y = screen_height \div 2]

\* pygame.time.get_ticks() - last_pipe one frame later (only its comparison
\* with pipe_frequency is used, so it is kept saturated above it)
Age(age) == Min(age + FrameMs, pipe_frequency + 1)

\* Moving without the pause test of line 473
MovingPaused(fly, over, paused) == fly /\ ~over

\* the conditions of lines 445, 461 and 473
Active(started, paused) == started /\ ~paused

Scoring(pipes, paused) == Len(pipes) > 0 /\ ~paused

Moving(fly, over, paused) == fly /\ ~over /\ ~paused

\* CrashFlags with game_over left off
CrashFlagsNoOver == [game_over |-> FALSE, game_started |-> FALSE, flying |-> FALSE]

\* CrashFlags with flying left on
CrashFlagsFlying == [game_over |-> TRUE, game_started |-> FALSE, flying |-> TRUE]

\* lines 494-496 and 500-502
CrashFlags == [game_over |-> TRUE, game_started |-> FALSE, flying |-> FALSE]

\* RestartFlags with flying left on
RestartFlagsFlying == [game_over |-> FALSE, game_started |-> TRUE, flying |-> TRUE]

\* lines 510-513
RestartFlags == [game_over |-> FALSE, game_started |-> TRUE, flying |-> FALSE]

\* One iteration of the main loop up to the event queue, lines 440-517,
\* while fewer than limit frames have been flown in the first run, with
\* random.randint(-75, 75) drawn from heights
Frame(limit, heights) ==
  \E pipe_height \in heights :
    LET age == Age(pipe_age)
        jumpHeld == held \cap JumpDevices # {}
        \* 445-448
        active == Active(game_started, game_paused)
        b1 == IF active THEN BirdUpdate(flappy, flying, game_over, jumpHeld)
                        ELSE flappy
        impulse == b1.flaps > flappy.flaps
        \* 460-471
        sc == IF Scoring(pipe_group, game_paused)
                THEN ScoreCheck(b1, pipe_group, pass_pipe, score, high_score)
                ELSE [pass_pipe |-> pass_pipe, score |-> score,
                      high_score |-> high_score, pipes |-> pipe_group]
        \* 473-484
        moving == Moving(flying, game_over, game_paused)
        spawn == moving /\ SpawnDue(age)
        n == IF Len(sc.pipes) = 0 THEN 1 ELSE sc.pipes[Len(sc.pipes)].n + 1
        p1 == IF spawn THEN Spawn(sc.pipes, pipe_height, n) ELSE sc.pipes
        p2 == IF moving THEN PipeUpdate(p1) ELSE p1
        missed == \E i \in 1..Len(p1) :
                    /\ moving /\ ~(\E j \in 1..Len(p2) : p2[j].n = p1[i].n)
                    /\ p1[i].credits = 0 /\ p1[i].position = 0 - 1
        \* 490-502
        hit == active /\ Collision(b1, p2)
        f1 == IF hit THEN CrashFlags
                     ELSE [game_over |-> game_over, game_started |-> game_started,
                           flying |-> flying]
        \* 505-517
        fade1 == IF f1.game_over THEN fade_counter + 1 ELSE fade_counter
        restart == f1.game_over /\ RestartDue(fade1, held)
        f2 == IF restart THEN RestartFlags ELSE f1
        save == restart /\ sc.score > sc.high_score
    IN  /\ moving /\ ~unattended =>
             flown < (IF restarts = 0 THEN limit ELSE MaxAgain)
        /\ f1.game_over => fade_counter < MaxFade
        /\ restart => restarts < MaxRestarts
        /\ pipe_age' = IF spawn THEN 0 ELSE age
        /\ game_over' = f2.game_over
        /\ game_started' = f2.game_started
        /\ flying' = f2.flying
        /\ game_paused' = game_paused
        /\ fade_counter' = IF restart THEN 0 ELSE fade1
        /\ high_score' = IF save THEN sc.score ELSE sc.high_score
        /\ stored' = IF save THEN sc.score ELSE stored
        /\ score' = IF restart THEN 0 ELSE sc.score
        /\ pass_pipe' = sc.pass_pipe
        /\ pipe_group' = IF restart THEN << >> ELSE p2
        /\ flappy' = IF restart THEN ResetBird(b1) ELSE b1
        /\ flown' = IF restart THEN 0 ELSE IF moving THEN flown + 1 ELSE flown
        /\ restarts' = IF restart THEN restarts + 1 ELSE restarts
        /\ obs' = [impulse |-> impulse,
                   spawned |-> spawn, died |-> hit, restarted |-> restart,
                   ignored |-> f1.game_over /\ held \cap RestartDevices # {}
                               /\ ~restart,
                   missed |-> missed,
                   final_score |-> IF restart THEN sc.score ELSE obs.final_score,
                   final_best |-> IF restart THEN sc.high_score ELSE obs.final_best,
                   final_stored |-> IF restart THEN stored ELSE obs.final_stored]
        /\ pressed' = (pressed /\ ~restart)
        /\ UNCHANGED <<held, mouse_pos, pauses, unattended>>

(* --------------------------- event handlers --------------------------- *)
\* The bounds on the player: when a device may go down during a flight
InFlight == flying /\ ~game_over

\* after a restart the player goes on either at once or once a pair is due
Waited == obs.restarted \/ pipe_age > pipe_frequency

JumpAllowed ==
  /\ InFlight /\ ~game_paused =>
       flappy.y >= JumpLine /\ flappy.y <= JumpLine + JumpSlack
  /\ game_started /\ ~flying => Waited

PauseAllowed ==
  /\ ~game_paused => pauses < MaxPauses
  /\ IF InFlight
       THEN IF game_paused THEN pipe_age <= ResumeBy \/ pipe_age > pipe_frequency
                        ELSE flown <= PauseBy
       ELSE Waited

\* pygame.event.get() reports a device going down, and get_pressed shows it
\* down from then on
Down(d) ==
  /\ ~unattended
  /\ d \notin held
  /\ Cardinality(held) < MaxHeld
  /\ held' = held \cup {d}
  /\ pressed' = TRUE

\* lines 522-532, with mouse_pos inside the pause button's corner or not
MouseButtonDown ==
  \E in_region \in BOOLEAN :
    /\ Down("MOUSE")
    /\ mouse_pos' = IF in_region THEN "corner" ELSE "field"
    /\ IF game_started /\ ~game_over /\ (in_region \/ game_paused)
         THEN PauseAllowed ELSE JumpAllowed
    /\ IF ~game_over /\ game_started
         THEN IF in_region
                THEN /\ game_paused' = ~game_paused
                     /\ UNCHANGED <<flying, game_started>>
                ELSE /\ flying' = IF ~game_paused THEN TRUE ELSE flying
                     /\ UNCHANGED <<game_paused, game_started>>
         ELSE IF ~game_over /\ ~game_started
                THEN /\ flying' = TRUE
                     /\ game_started' = TRUE
                     /\ UNCHANGED game_paused
                ELSE UNCHANGED <<flying, game_started, game_paused>>
    /\ pauses' = IF game_paused' /\ ~game_paused THEN pauses + 1 ELSE pauses
    /\ UNCHANGED <<game_over, score, pass_pipe, fade_counter, high_score,
                   stored, pipe_age, flappy, pipe_group, flown, restarts, obs,
                   unattended>>

\* lines 533-542, for the keys the player uses
KeyDown(keys) ==
  \E key \in keys :
    /\ Down(key)
    /\ UNCHANGED mouse_pos
    /\ IF game_started /\ ~game_over /\ (key = "RETURN" \/ game_paused)
         THEN PauseAllowed ELSE JumpAllowed
    /\ IF key \in {"SPACE", "UP"}
         THEN IF game_paused
                THEN /\ game_paused' = FALSE
                     /\ UNCHANGED <<flying, game_started>>
                ELSE IF ~flying /\ ~game_over
                       THEN /\ flying' = TRUE
                            /\ game_started' = TRUE
                            /\ UNCHANGED game_paused
                       ELSE UNCHANGED <<flying, game_started, game_paused>>
         ELSE IF game_started /\ ~game_over
                THEN /\ game_paused' = ~game_paused
                     /\ UNCHANGED <<flying, game_started>>
                ELSE UNCHANGED <<flying, game_started, game_paused>>
    /\ pauses' = IF game_paused' /\ ~game_paused THEN pauses + 1 ELSE pauses
    /\ UNCHANGED <<game_over, score, pass_pipe, fade_counter, high_score,
                   stored, pipe_age, flappy, pipe_group, flown, restarts, obs,
                   unattended>>

\* MOUSEBUTTONUP and KEYUP have no handler: the device is up at the next
\* get_pressed
Release ==
  \E d \in held :
    /\ held' = held \ {d}
    /\ UNCHANGED <<flying, game_over, game_started, game_paused, score,
                   pass_pipe, fade_counter, high_score, stored, pipe_age,
                   flappy, pipe_group, mouse_pos, flown, restarts, pauses,
                   obs, pressed, unattended>>

\* The player leaves the controls during a flight: no device goes down from
\* then on (one that is down may still go up)
Leave ==
  /\ flying /\ ~game_over /\ ~game_paused
  /\ ~unattended
  /\ unattended' = TRUE
  /\ UNCHANGED <<flying, game_over, game_started, game_paused, score,
                 pass_pipe, fade_counter, high_score, stored, pipe_age,
                 flappy, pipe_group, held, mouse_pos, flown, restarts,
                 pauses, obs, pressed>>

(* --------------------------- specifications --------------------------- *)
\* lines 68-85, 106, 430-435, with load_high_score returning one of stores
Start(stores) ==
  /\ flying = FALSE
  /\ game_over = FALSE
  /\ game_started = FALSE
  /\ game_paused = FALSE
  /\ pipe_age = pipe_frequency
  /\ score = 0
  /\ pass_pipe = FALSE
  /\ fade_counter = 0
  /\ stored \in stores
  /\ high_score = stored
  /\ pipe_group = << >>
  /\ flappy = Bird(100, screen_height \div 2)
  /\ held = {}
  /\ flown = 0
  /\ restarts = 0
  /\ pauses = 0
  /\ mouse_pos = "field"
  /\ obs = [impulse |-> FALSE, spawned |-> FALSE,
            died |-> FALSE, restarted |-> FALSE, ignored |-> FALSE,
            missed |-> FALSE, final_score |-> 0, final_best |-> 0,
            final_stored |-> 0]
  /\ pressed = FALSE
  /\ unattended = FALSE

Init == Start(StoredScores)

\* every input device, the flight followed down to the ground
Next ==
  \/ Frame(MaxFlown, {0})
  \/ MouseButtonDown
  \/ KeyDown({"SPACE", "UP", "RETURN"})
  \/ Release

Spec == Init /\ [][Next]_vars

\* the SPACE key alone, the flight followed past pairs of either height
NextRun ==
  \/ Frame(MaxRun, PipeHeights)
  \/ KeyDown({"SPACE"})
  \/ Release

SpecRun == Init /\ [][NextRun]_vars

\* SPACE and RETURN, the flight paused and followed past pairs of one height
NextPause ==
  \/ Frame(MaxRun, {0})
  \/ KeyDown({"SPACE", "RETURN"})
  \/ Release

SpecPause == Init /\ [][NextPause]_vars

\* the keys that launch a flight, the player leaving at any moment of the
\* first MaxLeave frames of a flight; an unattended flight is followed to
\* its end, and the main loop never stops iterating
NextAlone ==
  \/ Frame(MaxLeave, {0})
  \/ KeyDown({"SPACE", "UP"})
  \/ Release
  \/ Leave

SpecAlone == Init /\ [][NextAlone]_vars /\ WF_vars(Frame(MaxLeave, {0}))

\* the SPACE key alone, pairs of one height, the best score loaded from
\* the store being any of BestScores
NextBest ==
  \/ Frame(MaxRun, {0})
  \/ KeyDown({"SPACE"})
  \/ Release

SpecBest == Start(BestScores) /\ [][NextBest]_vars

\* the keys that launch a flight, no pause; the main loop never stops
\* iterating (while run, line 439)
NextLive ==
  \/ Frame(MaxFlown, {0})
  \/ KeyDown({"SPACE", "UP"})
  \/ Release

SpecLive == Init /\ [][NextLive]_vars /\ WF_vars(Frame(MaxFlown, {0}))

(* ------------------------------- claims ------------------------------- *)
\* C1: a run whose score came to exceed the stored best leaves that score in
\* the store after the qualifying restart that follows the run's end
C1_BestPersisted ==
  obs.restarted /\ obs.final_score > obs.final_stored
    => stored = obs.final_score

\* the points a pair's two pipes were given
PairCredits(n) ==
  LET Sum[i \in 0..Len(pipe_group)] ==
        IF i = 0 THEN 0
        ELSE Sum[i - 1] + (IF pipe_group[i].n = n THEN pipe_group[i].credits
                                                  ELSE 0)
  IN  Sum[Len(pipe_group)]

\* C2: no pair is credited more than once, whatever the ticks and inputs
\* (pauses included), and the score goes down only by the reset to 0 of a
\* restart
C2_AtMostOnce ==
  /\ [](\A i \in 1..Len(pipe_group) : PairCredits(pipe_group[i].n) <= 1)
  /\ [][\/ score' = score
        \/ score' = score + 1
        \/ score' = 0 /\ obs'.restarted /\ ~game_over']_vars

\* C2 witness: a pause behind it, the bird is well beyond the column of a
\* pair that was credited once
C2_Witness ==
  /\ pauses = 1
  /\ score = 1
  /\ Len(pipe_group) > 0
  /\ PairCredits(pipe_group[1].n) = 1
  /\ BirdLeft(flappy) > PipeRight(pipe_group[1]) + 10 * scroll_speed

\* C3: every pair that leaves the screen behind the living bird has been
\* credited
C3_EveryPairCredited == ~obs.missed

\* a device going down in this step that resumes a paused game: SPACE, UP or
\* RETURN, or the pointer in the pause button's corner
ResumeInput ==
  \/ \E key \in {"SPACE", "UP", "RETURN"} : key \notin held /\ key \in held'
  \/ "MOUSE" \notin held /\ "MOUSE" \in held' /\ mouse_pos' = "corner"

\* C4: while the game is paused no step changes the player, the pipes, the
\* score or the pass flag, and the only steps that change the mode are the
\* resume inputs, which clear game_paused and nothing else
C4_PauseInvariance ==
  [][game_paused =>
       /\ UNCHANGED <<flappy, pipe_group, score, pass_pipe, high_score,
                      fade_counter, flying, game_started, game_over>>
       /\ game_paused' # game_paused => ResumeInput]_vars

\* C4 witness: a frame has gone by in a paused flight with a pipe on screen
\* and the pointer pressed outside the corner
C4_Witness ==
  /\ game_paused /\ flying
  /\ Len(pipe_group) > 0
  /\ pipe_age >= 2 * FrameMs
  /\ "MOUSE" \in held /\ mouse_pos = "field"

C6_FullReset ==
  obs.restarted =>
    /\ score = 0
    /\ pipe_group = << >>
    /\ fade_counter = 0
    /\ flappy.x = 100 - bird_width \div 2
    /\ flappy.y = screen_height \div 2 - bird_height \div 2

\* C7: the velocity stays within -7.0 .. 5.0
C7_VelocityClamp ==
  flappy.vel <= 50 /\ flappy.vel >= 0 - 70

\* C7 witness: a flight that has fallen past the jump line at full speed
C7_Witness ==
  /\ flying /\ flown >= 40
  /\ flappy.flaps = 0
  /\ flappy.vel = 50
  /\ flappy.y > JumpLine + JumpSlack

\* C8: between two frames in which Bird.update sees every jump input up the
\* impulse is applied at most once
C8_JumpLatch == flappy.flaps <= 1

\* C8 witness: frames after the impulse of a hold, Bird.update has seen the
\* input down again without a second impulse
C8_Witness ==
  /\ flying /\ ~game_paused
  /\ held \cap JumpDevices # {}
  /\ flappy.flaps = 1
  /\ ~obs.impulse
  /\ flappy.vel > 0 - 70 + 2 * gravity

\* the bird's rect on or under the ground line, above the screen or
\* overlapping a pipe
C9_Colliding ==
  \/ flappy.y + bird_height >= screen_height - 168
  \/ flappy.y < 0
  \/ \E i \in 1..Len(pipe_group) :
       /\ flappy.x < pipe_group[i].x + pipe_width
       /\ flappy.x + bird_width > pipe_group[i].x
       /\ flappy.y < pipe_group[i].y + pipe_length
       /\ flappy.y + bird_height > pipe_group[i].y

\* C9: a frame that finds the bird colliding ends in game over, so that no
\* frame ends with the game started and the bird in a colliding position
C9_FatalCollision ==
  /\ game_started => ~C9_Colliding
  /\ obs.died => game_over /\ ~game_started /\ ~flying

\* C9 witness: the bird's bottom edge came down on the ground line exactly
C9_Witness ==
  /\ obs.died /\ game_over
  /\ flappy.y + bird_height = screen_height - 168

\* C10 as stated: after a restart, with no further press, flying comes on
C10_FliesAgain == [](obs.restarted => <>(flying \/ pressed))

\* C10 amended: after a restart the game is started but not flying for as
\* long as no device goes down
C10_IdleUntilPress ==
  restarts > 0 /\ ~pressed => game_started /\ ~game_over /\ ~flying

\* C10 witness: long after the restart, its input released, nothing flies
C10_Witness ==
  /\ restarts > 0 /\ ~pressed
  /\ held = {}
  /\ pipe_age > pipe_frequency
  /\ ~flying

\* C11: the pipes come in complete pairs: the group is a sequence of bottom
\* pipe, top pipe with the same x, the same gap centre and the same pair
\* number, the gap of pipe_gap between them, so that both halves of a pair
\* are added in one frame and removed in one frame
C11_PairIntegrity ==
  /\ Len(pipe_group) % 2 = 0
  /\ \A k \in 1..(Len(pipe_group) \div 2) :
       LET btm == pipe_group[2 * k - 1]
           top == pipe_group[2 * k]
       IN  /\ btm.position = 0 - 1 /\ top.position = 1
           /\ btm.x = top.x
           /\ btm.centre = top.centre
           /\ btm.n = top.n
           /\ PipeTop(btm) - PipeBottom(top) = pipe_gap

\* C11 witness: the first pair has left the screen and a later pair is
\* still on it
C11_Witness ==
  /\ flying
  /\ Len(pipe_group) > 0
  /\ pipe_group[1].n > 1

\* C12: a frame of flight that finds no pipe at all (the first frame of a
\* flight, on the first launch and after a restart) spawns the first pair
C12_SpawnAtStart ==
  [][flown' = flown + 1 /\ pipe_group = << >> => Len(pipe_group') = 2]_vars

\* C13: right after a qualifying restart the bird's velocity is 0
C13_VelocityReset == obs.restarted => flappy.vel = 0

\* C14: a frame of flight that finds the bird's bottom edge above the ground
\* and applies no impulse moves the bird by the floor of its velocity after
\* gravity and clamp
C14_FloorStep ==
  [][/\ flown' = flown + 1
     /\ BirdBottom(flappy) < ground_level
     /\ ~obs'.impulse
     => flappy'.y = flappy.y + (flappy'.vel \div 10)]_vars

\* C15: in the first run, once the game has been paused, the pointer held
\* down alone in the pause button's corner of a started, unpaused game is a
\* press that toggled the pause; the frame that follows applies no impulse
C15_CornerNeverJumps ==
  [][/\ held = {"MOUSE"} /\ mouse_pos = "corner"
     /\ game_started /\ ~game_over /\ ~game_paused
     /\ pauses >= 1 /\ restarts = 0
     => flappy'.flaps <= flappy.flaps]_vars

\* C16: whenever the pass flag is set there is a front pipe that the bird
\* has entered and that has not been credited; with no pipes it is clear
C16_PassFlagLive ==
  pass_pipe =>
    /\ Len(pipe_group) > 0
    /\ BirdLeft(flappy) > PipeLeft(pipe_group[1])
    /\ pipe_group[1].credits = 0

\* C17: the pipes move scroll_speed in every unpaused frame of flight, so
\* the distance between two consecutive pairs gives the unpaused flying time
\* between their spawns; it is more than pipe_frequency
C17_UnpausedInterval ==
  \A i, j \in 1..Len(pipe_group) :
    pipe_group[j].n = pipe_group[i].n + 1 =>
      ((pipe_group[j].x - pipe_group[i].x) \div scroll_speed) * FrameMs
        > pipe_frequency

\* C18: the four flags encode a valid mode: game over excludes started and
\* flying, flying and paused both need a started game that is not over, and
\* neither started nor over is the case only before the first launch
C18_ModeFlags ==
  /\ game_over => ~game_started /\ ~flying
  /\ flying => game_started /\ ~game_over
  /\ game_paused => game_started /\ ~game_over
  /\ ~game_started /\ ~game_over =>
       /\ flappy = Bird(100, screen_height \div 2)
       /\ pipe_group = << >>
       /\ flown = 0 /\ restarts = 0 /\ score = 0

\* C18 witness: after a restart the game is paused before it flies again
C18_Witness ==
  /\ restarts > 0
  /\ game_paused /\ ~flying
  /\ held # {}

\* C19: with a non-negative best score loaded, the best score is at least
\* the score in every state, the score is never negative, and the best
\* score never goes down
C19_BestDominance ==
  /\ [](high_score >= score /\ score >= 0)
  /\ [][high_score' >= high_score]_vars

\* C19 witness: a run has beaten the loaded best and has been restarted
C19_Witness ==
  /\ restarts > 0
  /\ score = 0
  /\ high_score > stored

\* C20: a flight the player has left ends in game over
C20_UnattendedEnds == [](unattended /\ flying => <>game_over)

\* C20 witness: a flight the player has left has gone on beyond the frames
\* an attended flight is followed for and has ended on the ground
C20_Witness ==
  /\ unattended /\ game_over
  /\ BirdBottom(flappy) >= ground_level
  /\ flown > MaxLeave

====
